---- MODULE Spec2Model ----
(***************************************************************************)
(* A model of src/src/main.rs: the GitHub language/star statistics tool.   *)
(*                                                                         *)
(* Strings are sequences of Unicode code points (String's Ord is the       *)
(* code-point order).  u32 values are pairs <<hi, lo>> of 16-bit halves,   *)
(* so that the contribution sum keeps its 32-bit width.  f32 values are    *)
(* modelled exactly: NaN, +infinity, or a non-negative rational in lowest  *)
(* terms (rounding of f32 is abstracted away, its special values are not). *)
(***************************************************************************)
EXTENDS Integers, Sequences, FiniteSets, TLC

VARIABLES
    args,             \* Args as parsed by clap (main.rs:8-18)
    connection,       \* GitHub built by from_args (main.rs:20-26)
    pc,               \* position of main
    api,              \* what the hosting platform holds: repository lists
    orgs_data,        \* collect_repos: organizations still to fetch
    repos,            \* collect_repos / main: Vec<RepoData>
    idx,              \* main: position of `for repo in repos`
    repos_info,       \* main: Vec<RepoInfo>
    call,             \* locals of the last handle_repo call
    outcomes,         \* per analyzed repository, how handle_repo returned
    langs_map,        \* main: BTreeMap<String, f32>
    sum_of_components,
    percent_map,
    percents_sorted,  \* the language lines in the order printed
    total_stars,
    div_zero          \* a division with a zero denominator was evaluated

vars == <<args, connection, pc, api, orgs_data, repos, idx, repos_info, call,
          outcomes, langs_map, sum_of_components, percent_map, percents_sorted,
          total_stars, div_zero>>

-----------------------------------------------------------------------------
(* Bounds of the model *)

MaxUserRepos == 2
MaxOrgs == 2
MaxOrgRepos == 2
MaxContributors == 2
MaxLangs == 2
MaxRepos == 2

-----------------------------------------------------------------------------
(* Strings *)

Empty == <<>>
Go == <<71, 111>>
GoUpper == <<71, 79>>
Rust == <<82, 117, 115, 116>>
Total == <<84, 111, 116, 97, 108>>
EAcuteLower == <<233>>
EAcuteUpper == <<201>>
UserArg == <<65, 98>>
UserLogin == <<97, 66>>
OtherLogin == <<99, 100>>

\* u8/char::to_ascii_lowercase: only 'A'..'Z' change
AsciiLowerChar(c) == IF c >= 65 /\ c <= 90 THEN c + 32 ELSE c

to_ascii_lowercase(s) == [i \in DOMAIN s |-> AsciiLowerChar(s[i])]

\* Ord for String: lexicographic on code points
RECURSIVE StrLess(_, _)
StrLess(a, b) ==
    IF Len(b) = 0 THEN FALSE
    ELSE IF Len(a) = 0 THEN TRUE
    ELSE IF Head(a) # Head(b) THEN Head(a) < Head(b)
    ELSE StrLess(Tail(a), Tail(b))

\* Vec::contains
Contains(v, x) == \E i \in DOMAIN v : v[i] = x

RECURSIVE SeqsUpTo(_, _)
SeqsUpTo(S, n) ==
    IF n = 0 THEN {<<>>}
    ELSE LET shorter == SeqsUpTo(S, n - 1)
         IN  shorter \cup {Append(s, x) : s \in shorter, x \in S}

-----------------------------------------------------------------------------
(* u32 *)

Half == 2 ^ 16

U32(n) == <<n \div Half, n % Half>>
U32Zero == <<0, 0>>
U32Max == <<Half - 1, Half - 1>>

IsSmall(u) == u[1] < 2 ^ 14
ToInt(u) == u[1] * Half + u[2]

\* u32 addition: the wrapped value, and whether it overflowed
Add32(a, b) ==
    LET lo == a[2] + b[2]
        hi == a[1] + b[1] + (lo \div Half)
    IN  [val |-> <<hi % Half, lo % Half>>, overflow |-> hi >= Half]

-----------------------------------------------------------------------------
(* f32, exact *)

RECURSIVE Gcd(_, _)
Gcd(a, b) == IF b = 0 THEN a ELSE Gcd(b, a % b)

NaN == [k |-> "nan", n |-> 0, d |-> 1]
Inf == [k |-> "inf", n |-> 0, d |-> 1]
Num(n, d) == LET g == Gcd(n, d) IN [k |-> "num", n |-> n \div g, d |-> d \div g]
FZero == Num(0, 1)
FOne == Num(1, 1)

IsNum(x) == x.k = "num"

FAdd(a, b) ==
    IF a.k = "nan" \/ b.k = "nan" THEN NaN
    ELSE IF a.k = "inf" \/ b.k = "inf" THEN Inf
    ELSE LET lcm == (a.d \div Gcd(a.d, b.d)) * b.d
         IN  Num(a.n * (lcm \div a.d) + b.n * (lcm \div b.d), lcm)

FMul(a, b) ==
    IF a.k = "nan" \/ b.k = "nan" THEN NaN
    ELSE IF a.k = "inf" THEN (IF b = FZero THEN NaN ELSE Inf)
    ELSE IF b.k = "inf" THEN (IF a = FZero THEN NaN ELSE Inf)
    ELSE LET g == Gcd(a.n, b.d)
             h == Gcd(b.n, a.d)
         IN  Num((a.n \div g) * (b.n \div h), (a.d \div h) * (b.d \div g))

FDiv(a, b) ==
    IF a.k = "nan" \/ b.k = "nan" THEN NaN
    ELSE IF a.k = "inf" THEN (IF b.k = "inf" THEN NaN ELSE Inf)
    ELSE IF b.k = "inf" THEN FZero
    ELSE IF b.n = 0 THEN (IF a.n = 0 THEN NaN ELSE Inf)
    ELSE Num(a.n * b.d, a.d * b.n)

FLeq(a, b) == IsNum(a) /\ IsNum(b) /\ a.n * b.d <= b.n * a.d

\* the integer part of 1000 * n / d, digit by digit
Thousandths(n, d) ==
    LET Step(s) == [q |-> s.q * 10 + (s.r * 10) \div d, r |-> (s.r * 10) % d]
    IN  Step(Step(Step([q |-> n \div d, r |-> n % d]))).q

\* `u as f32 / t as f32` for u32 operands
DivU32(u, t) ==
    IF t = U32Zero THEN (IF u = U32Zero THEN NaN ELSE Inf)
    ELSE IF u = U32Zero THEN FZero
    ELSE IF u = t THEN FOne
    ELSE Num(ToInt(u), ToInt(t))

\* the quotients the exact model can hold
Exact(u, t) == u = U32Zero \/ t = U32Zero \/ u = t \/ (IsSmall(u) /\ IsSmall(t))

-----------------------------------------------------------------------------
(* Data *)

\* struct RepoData; contributors_url is a function of the repository's name
RepoPool ==
    { [full_name |-> "o/a", stargazers_count |-> 10],
      [full_name |-> "o/b", stargazers_count |-> 5] }

\* struct ContributorData
ContributorPool ==
    [login : {UserLogin, OtherLogin}, contributions : {U32Zero, U32(1), U32Max}]

\* struct LOCData
LOCPool ==
    { [language |-> Go, linesOfCode |-> 100],
      [language |-> Go, linesOfCode |-> 0],
      [language |-> Rust, linesOfCode |-> 100],
      [language |-> Total, linesOfCode |-> 200],
      [language |-> EAcuteLower, linesOfCode |-> 100] }

\* what a request can come back with: no response at all, a body that is not
\* the expected JSON, or the parsed list
Transport == [kind |-> "transport", body |-> <<>>]
Unparsable == [kind |-> "unparsable", body |-> <<>>]
Json(list) == [kind |-> "json", body |-> list]
NotSent == [kind |-> "not_sent", body |-> <<>>]

Responses(lists) == {Transport, Unparsable} \cup {Json(l) : l \in lists}

ContributorResponses == Responses(SeqsUpTo(ContributorPool, MaxContributors))
LangResponses == Responses(SeqsUpTo(LOCPool, MaxLangs))

\* the responses met in a whole run of main
RunContributorResponses ==
    Responses({ <<[login |-> UserLogin, contributions |-> U32(1)]>>,
                <<[login |-> UserLogin, contributions |-> U32Zero]>>,
                <<[login |-> OtherLogin, contributions |-> U32(1)]>>,
                <<[login |-> UserLogin, contributions |-> U32Zero],
                  [login |-> OtherLogin, contributions |-> U32(1)]>>,
                <<[login |-> OtherLogin, contributions |-> U32(1)],
                  [login |-> UserLogin, contributions |-> U32(1)]>> })
RunLangResponses ==
    Responses({ <<[language |-> Go, linesOfCode |-> 100]>>,
                <<[language |-> Go, linesOfCode |-> 0]>>,
                <<[language |-> Rust, linesOfCode |-> 100],
                  [language |-> Go, linesOfCode |-> 100]>>,
                <<[language |-> EAcuteLower, linesOfCode |-> 1],
                  [language |-> Go, linesOfCode |-> 2],
                  [language |-> Rust, linesOfCode |-> 399997]>> })

\* --excluded-langs: the default (one empty string), or one name
ExcludedArgs == { <<Empty>>, <<GoUpper>>, <<EAcuteUpper>> }

ArgsSet == [user : {UserArg}, weighted : {FALSE}, excluded_langs : ExcludedArgs]

RunArgsSet ==
    [user : {UserArg}, weighted : BOOLEAN, excluded_langs : {<<Empty>>, <<GoUpper>>}]

DefaultArgs == [user |-> UserArg, weighted |-> FALSE, excluded_langs |-> <<Empty>>]

\* an exclusion list kept as typed
from_args_keep_case(a) ==
    [user |-> a.user, weighted |-> a.weighted, excluded_langs |-> a.excluded_langs]

\* GitHub::from_args
from_args(a) ==
    [user |-> a.user,
     weighted |-> a.weighted,
     excluded_langs |-> [i \in DOMAIN a.excluded_langs |->
                            to_ascii_lowercase(a.excluded_langs[i])]]

EmptyMap == [x \in {} |-> FZero]
NoCall == [contributors |-> NotSent, langs |-> NotSent, total |-> U32Zero]

ApiWorlds ==
    [user_repos : SeqsUpTo(RepoPool, MaxUserRepos),
     org_repos : SeqsUpTo(SeqsUpTo(RepoPool, MaxOrgRepos), MaxOrgs)]

\* the state as main starts, with `start` the first position
Start(a, world, start, rs, infos) ==
    /\ args = a
    /\ connection = from_args(a)
    /\ pc = start
    /\ api = world
    /\ orgs_data = <<>>
    /\ repos = rs
    /\ idx = 1
    /\ repos_info = infos
    /\ call = NoCall
    /\ outcomes = <<>>
    /\ langs_map = EmptyMap
    /\ sum_of_components = FZero
    /\ percent_map = EmptyMap
    /\ percents_sorted = <<>>
    /\ total_stars = FZero
    /\ div_zero = FALSE

-----------------------------------------------------------------------------
(* collect_repos *)

RequestOutcomes == {"ok", "transport", "unparsable"}

\* `?` on a failed request returns Err from main; unwrap() on a body that does
\* not parse panics
Failed(o) == IF o = "transport" THEN "failed" ELSE "panicked"

coll_vars == <<args, connection, api, idx, repos_info, call, outcomes, langs_map,
               sum_of_components, percent_map, percents_sorted, total_stars,
               div_zero>>

\* connection.user_data()
UserData ==
    /\ pc = "user_data"
    /\ \E o \in RequestOutcomes :
          pc' = IF o = "ok" THEN "user_repos" ELSE Failed(o)
    /\ UNCHANGED <<orgs_data, repos>>
    /\ UNCHANGED coll_vars

\* the user's own repositories
FetchUserRepos ==
    /\ pc = "user_repos"
    /\ \E o \in RequestOutcomes :
          IF o = "ok"
          THEN /\ repos' = api.user_repos
               /\ pc' = "orgs"
          ELSE /\ repos' = repos
               /\ pc' = Failed(o)
    /\ UNCHANGED orgs_data
    /\ UNCHANGED coll_vars

\* the user's organizations
FetchOrgs ==
    /\ pc = "orgs"
    /\ \E o \in RequestOutcomes :
          IF o = "ok"
          THEN /\ orgs_data' = api.org_repos
               /\ pc' = "org_repos"
          ELSE /\ orgs_data' = orgs_data
               /\ pc' = Failed(o)
    /\ UNCHANGED repos
    /\ UNCHANGED coll_vars

\* an extend that drops what the vector already holds
ExtendDedup(v, w) == v \o SelectSeq(w, LAMBDA x : ~\E i \in DOMAIN v : v[i] = x)

\* Vec::extend
Extend(v, w) == v \o w

\* one turn of `for org in orgs_data`
FetchOrgRepos ==
    /\ pc = "org_repos"
    /\ orgs_data # <<>>
    /\ \E o \in RequestOutcomes :
          IF o = "ok"
          THEN /\ repos' = Extend(repos, Head(orgs_data))
               /\ orgs_data' = Tail(orgs_data)
               /\ pc' = "org_repos"
          ELSE /\ UNCHANGED <<repos, orgs_data>>
               /\ pc' = Failed(o)
    /\ UNCHANGED coll_vars

\* Ok(repos)
CollectReturn ==
    /\ pc = "org_repos"
    /\ orgs_data = <<>>
    /\ pc' = "analyze"
    /\ UNCHANGED <<orgs_data, repos>>
    /\ UNCHANGED coll_vars

NextCollect ==
    \/ UserData
    \/ FetchUserRepos
    \/ FetchOrgs
    \/ FetchOrgRepos
    \/ CollectReturn

InitCollect ==
    \E world \in ApiWorlds : Start(DefaultArgs, world, "user_data", <<>>, <<>>)

SpecCollect == InitCollect /\ [][NextCollect]_vars

-----------------------------------------------------------------------------
(* handle_repo *)

\* contributors.iter().map(|data| data.contributions).sum::<u32>()
RECURSIVE Sum32(_, _)
Sum32(contributors, acc) ==
    IF contributors = <<>> THEN acc
    ELSE LET next == Add32(acc.val, Head(contributors).contributions)
         IN  Sum32(Tail(contributors),
                   [val |-> next.val, overflow |-> acc.overflow \/ next.overflow])

total_contributions(contributors) ==
    Sum32(contributors, [val |-> U32Zero, overflow |-> FALSE])

\* the closure of contributors.iter().find(..)
LoginMatches(contributor, user) ==
    to_ascii_lowercase(contributor.login) = to_ascii_lowercase(user)

\* contributors.iter().find(..): the first match's position, 0 for None
FindUser(contributors, user) ==
    LET hits == {i \in DOMAIN contributors : LoginMatches(contributors[i], user)}
    IN  IF hits = {} THEN 0 ELSE CHOOSE i \in hits : \A j \in hits : i <= j

\* the closure of langs.into_iter().filter(..)
Keep(data, excluded_langs) ==
    /\ data.language # Total
    /\ ~Contains(excluded_langs, to_ascii_lowercase(data.language))

\* BTreeMap::insert
Insert(m, key, val) ==
    [x \in DOMAIN m \cup {key} |-> IF x = key THEN val ELSE m[x]]

\* .collect() into a BTreeMap: a later pair replaces an earlier one of its key
RECURSIVE Collect(_, _)
Collect(pairs, m) ==
    IF pairs = <<>> THEN m
    ELSE Collect(Tail(pairs), Insert(m, Head(pairs).language, Head(pairs).linesOfCode))

language_loc_map(langs, excluded_langs) ==
    Collect(SelectSeq(langs, LAMBDA data : Keep(data, excluded_langs)), EmptyMap)

NoInfo == [language_loc_map |-> EmptyMap, ratio_of_commits_from_user |-> FZero,
           stars |-> 0]

\* a parse failure passed on as an error
UnparsableIsError == "err"

\* `let Ok(..) = serde_json::from_str(..) else { return Ok(None) }`
OnUnparsable == "none"

Returned(tag, why, info, c, l, total, divz) ==
    [tag |-> tag, why |-> why, info |-> info, divz |-> divz,
     call |-> [contributors |-> c, langs |-> l, total |-> total]]

\* handle_repo, given what its two requests come back with and whether the
\* build checks integer overflow (debug) or wraps (release)
handle_repo(repo, conn, c, l, overflow_checks) ==
    IF c.kind = "transport"
    THEN Returned("err", "contributors_transport", NoInfo, c, NotSent, U32Zero, FALSE)
    ELSE IF c.kind = "unparsable"
    THEN Returned(OnUnparsable, "contributors_unparsable", NoInfo, c, NotSent, U32Zero, FALSE)
    ELSE
    LET contributors == c.body
        sum == total_contributions(contributors)
        total == sum.val
        found == FindUser(contributors, conn.user)
    IN  IF sum.overflow /\ overflow_checks
        THEN Returned("panic", "overflow_panic", NoInfo, c, NotSent, total, FALSE)
        ELSE IF found = 0
        THEN Returned("none", "user_absent", NoInfo, c, NotSent, total, FALSE)
        ELSE
        LET ratio_of_contributions == DivU32(contributors[found].contributions, total)
            divz == (total = U32Zero)
        IN  IF l.kind = "transport"
            THEN Returned("err", "langs_transport", NoInfo, c, l, total, divz)
            ELSE IF l.kind = "unparsable"
            THEN Returned(OnUnparsable, "langs_unparsable", NoInfo, c, l, total, divz)
            ELSE Returned("some", "record",
                          [language_loc_map |->
                               language_loc_map(l.body, conn.excluded_langs),
                           ratio_of_commits_from_user |-> ratio_of_contributions,
                           stars |-> repo.stargazers_count],
                          c, l, total, divz)

\* the contributor lists whose ratio the exact f32 model can hold
InModel(c, user) ==
    c.kind = "json" =>
        LET found == FindUser(c.body, user)
        IN  found # 0 =>
               Exact(c.body[found].contributions, total_contributions(c.body).val)

\* the build's overflow checks (on in debug, off in release) show only when
\* the u32 sum of contributions overflows
OverflowChecks(c) ==
    IF c.kind = "json" /\ total_contributions(c.body).overflow
    THEN BOOLEAN ELSE {TRUE}

agg_vars == <<langs_map, sum_of_components, percent_map, percents_sorted,
              total_stars>>
fixed_vars == <<args, connection, api, orgs_data, repos>>

\* one turn of `for repo in repos`: handle_repo, then push or continue, or `?`
AnalyzeRepo(CR, LR) ==
    /\ pc = "analyze"
    /\ idx <= Len(repos)
    /\ \E c \in CR, l \in LR : \E overflow_checks \in OverflowChecks(c) :
          LET r == handle_repo(repos[idx], connection, c, l, overflow_checks)
          IN  /\ InModel(c, connection.user)
              /\ call' = r.call
              /\ outcomes' = Append(outcomes, r.why)
              /\ div_zero' = (div_zero \/ r.divz)
              /\ repos_info' = IF r.tag = "some" THEN Append(repos_info, r.info)
                               ELSE repos_info
              /\ idx' = IF r.tag \in {"some", "none"} THEN idx + 1 ELSE idx
              /\ pc' = CASE r.tag = "err" -> "failed"
                         [] r.tag = "panic" -> "panicked"
                         [] OTHER -> "analyze"
    /\ UNCHANGED agg_vars
    /\ UNCHANGED fixed_vars

\* the loop is over
LoopExit ==
    /\ pc = "analyze"
    /\ idx > Len(repos)
    /\ pc' = "aggregate"
    /\ call' = NoCall
    /\ UNCHANGED <<idx, repos_info, outcomes, div_zero>>
    /\ UNCHANGED agg_vars
    /\ UNCHANGED fixed_vars

-----------------------------------------------------------------------------
(* main: aggregation *)

\* a BTreeMap's keys in iteration order
RECURSIVE SortedKeys(_)
SortedKeys(S) ==
    IF S = {} THEN <<>>
    ELSE LET least == CHOOSE x \in S : \A y \in S \ {x} : StrLess(x, y)
         IN  <<least>> \o SortedKeys(S \ {least})

\* what a record adds to a language's total
Weigh(weighted, val, ratio) ==
    IF weighted THEN FMul(Num(val, 1), ratio) ELSE Num(val, 1)

\* langs_map.get / insert
Accumulate(m, lang, val) ==
    IF lang \in DOMAIN m THEN Insert(m, lang, FAdd(m[lang], val))
    ELSE Insert(m, lang, val)

\* `for (lang, val) in info.language_loc_map.clone()`
RECURSIVE AddInfo(_, _, _, _)
AddInfo(m, info, keys, weighted) ==
    IF keys = <<>> THEN m
    ELSE AddInfo(Accumulate(m, Head(keys),
                            Weigh(weighted, info.language_loc_map[Head(keys)],
                                  info.ratio_of_commits_from_user)),
                 info, Tail(keys), weighted)

\* `for info in repos_info.iter()`
RECURSIVE SumLangs(_, _, _)
SumLangs(m, infos, weighted) ==
    IF infos = <<>> THEN m
    ELSE SumLangs(AddInfo(m, Head(infos),
                          SortedKeys(DOMAIN Head(infos).language_loc_map), weighted),
                  Tail(infos), weighted)

\* Iterator::sum::<f32>() over the values of a sequence of floats
RECURSIVE FSum(_)
FSum(values) == IF values = <<>> THEN FZero ELSE FAdd(Head(values), FSum(Tail(values)))

\* langs_map.values()
Values(m) == LET keys == SortedKeys(DOMAIN m) IN [i \in DOMAIN keys |-> m[keys[i]]]

\* a scaling that stops at the fraction
PercentUnscaled(val, sum) == FDiv(val, sum)

Percent(val, sum) == FMul(FDiv(val, sum), Num(100, 1))

\* `for (lang, val) in langs_map`
Scaled(m, sum) == [lang \in DOMAIN m |-> Percent(m[lang], sum)]

\* `(v * 1000.0) as u32`: truncation, NaN to 0 (the cast never saturates:
\* see PercentIsNanOrFinite)
SortKey(percent) ==
    IF percent.k = "nan" THEN 0 ELSE Thousandths(percent.n, percent.d)

\* percent_map.into_iter().collect()
Pairs(m) == LET keys == SortedKeys(DOMAIN m)
            IN  [i \in DOMAIN keys |-> [lang |-> keys[i], percent |-> m[keys[i]]]]

\* a stable sort puts an element after those of its key
RECURSIVE InsertSorted(_, _)
InsertSorted(sorted, e) ==
    IF sorted = <<>> THEN <<e>>
    ELSE IF SortKey(Head(sorted).percent) <= SortKey(e.percent)
    THEN <<Head(sorted)>> \o InsertSorted(Tail(sorted), e)
    ELSE <<e>> \o sorted

\* slice::sort_by_key
RECURSIVE SortByKey(_)
SortByKey(s) ==
    IF s = <<>> THEN <<>>
    ELSE InsertSorted(SortByKey(SubSeq(s, 1, Len(s) - 1)), s[Len(s)])

\* slice::reverse
Reverse(s) == [i \in DOMAIN s |-> s[Len(s) + 1 - i]]

\* a sort left in ascending order
PresentedUnreversed(m) == SortByKey(Pairs(m))

Presented(m) == Reverse(SortByKey(Pairs(m)))

\* a star total that ignores --weighted
StarTermUnweighted(weighted, stars, ratio) == Num(stars, 1)

\* one term of the star total
StarTerm(weighted, stars, ratio) ==
    FMul(Num(stars, 1), IF weighted THEN ratio ELSE FOne)

TotalStars(infos, weighted) ==
    FSum([i \in DOMAIN infos |->
             StarTerm(weighted, infos[i].stars, infos[i].ratio_of_commits_from_user)])

run_vars == <<idx, repos_info, call, outcomes>>

\* "Sum all language ratios into a new map", "Scale so that all values add
\* to 100"
Aggregate ==
    /\ pc = "aggregate"
    /\ LET summed == SumLangs(EmptyMap, repos_info, connection.weighted)
           sum == FSum(Values(summed))
       IN  /\ langs_map' = summed
           /\ sum_of_components' = sum
           /\ percent_map' = Scaled(summed, sum)
           /\ div_zero' = (div_zero \/ (DOMAIN summed # {} /\ sum = FZero))
    /\ pc' = "present"
    /\ UNCHANGED <<percents_sorted, total_stars>>
    /\ UNCHANGED run_vars
    /\ UNCHANGED fixed_vars

\* "Print most used languages", "Print total stars", then Ok(())
Present ==
    /\ pc = "present"
    /\ percents_sorted' = Presented(percent_map)
    /\ total_stars' = TotalStars(repos_info, connection.weighted)
    /\ pc' = "done"
    /\ UNCHANGED <<langs_map, sum_of_components, percent_map, div_zero>>
    /\ UNCHANGED run_vars
    /\ UNCHANGED fixed_vars

NextRun(CR, LR) ==
    \/ AnalyzeRepo(CR, LR)
    \/ LoopExit
    \/ Aggregate
    \/ Present

World(rs) == [user_repos |-> rs, org_repos |-> <<>>]

\* main after collect_repos has returned, any responses to handle_repo
InitRepo ==
    \E a \in ArgsSet, r \in RepoPool : Start(a, World(<<r>>), "analyze", <<r>>, <<>>)

NextRepo == NextRun(ContributorResponses, LangResponses)

SpecRepo == InitRepo /\ [][NextRepo]_vars

\* main after collect_repos has returned, several repositories
InitRun ==
    \E a \in RunArgsSet, rs \in SeqsUpTo(RepoPool, MaxRepos) :
        Start(a, World(rs), "analyze", rs, <<>>)

NextRun2 == NextRun(RunContributorResponses, RunLangResponses)

SpecRun == InitRun /\ [][NextRun2]_vars

-----------------------------------------------------------------------------
(* Properties *)

AfterScale == pc \in {"present", "done"}
AfterPrint == pc = "done"

Hundred == Num(100, 1)

\* the percentages never become infinite, so `as u32` never saturates
PercentIsNanOrFinite == \A lang \in DOMAIN percent_map : percent_map[lang] # Inf

PercentSum == FSum(Values(percent_map))

\* C1 as claimed: whenever at least one record exists, the language
\* percentages sum to 100.
C1_PercentagesSumTo100 ==
    (AfterScale /\ repos_info # <<>>) => PercentSum = Hundred

\* C1 amended: whenever at least one record exists and the accumulated language
\* totals sum to a finite number greater than 0, the percentages sum to 100.
C1_SumTo100WhenTotalPositive ==
    (AfterScale /\ repos_info # <<>>
        /\ IsNum(FSum(Values(langs_map))) /\ FSum(Values(langs_map)) # FZero)
    => PercentSum = Hundred

C1_Witness ==
    /\ pc = "done"
    /\ connection.weighted
    /\ Len(repos_info) = 2
    /\ repos_info[1].ratio_of_commits_from_user = Num(1, 2)
    /\ DOMAIN percent_map = {Go, Rust}
    /\ percent_map[Go] = Num(60, 1)
    /\ percent_map[Rust] = Num(40, 1)

\* the factor of a record: its ratio in weighted mode, 1 otherwise
Factor(info) ==
    IF connection.weighted THEN info.ratio_of_commits_from_user ELSE FOne

\* sum over the records that list `lang` of magnitude * factor
ExpectedTotal(lang) ==
    LET with == SelectSeq(repos_info, LAMBDA info : lang \in DOMAIN info.language_loc_map)
    IN  FSum([i \in DOMAIN with |->
                 FMul(Num(with[i].language_loc_map[lang], 1), Factor(with[i]))])

ExpectedStars ==
    FSum([i \in DOMAIN repos_info |->
             FMul(Num(repos_info[i].stars, 1), Factor(repos_info[i]))])

\* C2: every record contributes with one factor (its ratio when weighted, 1
\* when not) to each language total and to the star total.
C2_OneFactorForTotalsAndStars ==
    /\ AfterScale =>
          /\ DOMAIN langs_map =
                UNION {DOMAIN repos_info[i].language_loc_map : i \in DOMAIN repos_info}
          /\ \A lang \in DOMAIN langs_map : langs_map[lang] = ExpectedTotal(lang)
    /\ pc = "done" => total_stars = ExpectedStars

ExampleR1 == [language_loc_map |-> (Go :> 100),
              ratio_of_commits_from_user |-> Num(1, 2), stars |-> 10]
ExampleR2 == [language_loc_map |-> (Go :> 100) @@ (Rust :> 100),
              ratio_of_commits_from_user |-> FOne, stars |-> 5]

\* the weighted scenario: Go 150, Rust 100, 10 stars
C2_Witness ==
    /\ pc = "done"
    /\ connection.weighted
    /\ repos_info = <<ExampleR1, ExampleR2>>
    /\ langs_map[Go] = Num(150, 1)
    /\ langs_map[Rust] = Num(100, 1)
    /\ total_stars = Num(10, 1)

\* the unweighted scenario: Go 200, Rust 100, 15 stars
C2_UnweightedExample ==
    /\ pc = "done"
    /\ ~connection.weighted
    /\ repos_info = <<ExampleR1, ExampleR2>>
    /\ langs_map[Go] = Num(200, 1)
    /\ langs_map[Rust] = Num(100, 1)
    /\ total_stars = Num(15, 1)

\* handle_repo has just returned a record
Produced == call # NoCall /\ outcomes # <<>> /\ outcomes[Len(outcomes)] = "record"

AllZero(contributors) ==
    \A i \in DOMAIN contributors : contributors[i].contributions = U32Zero

UserListed(contributors) ==
    \E i \in DOMAIN contributors :
        to_ascii_lowercase(contributors[i].login) = to_ascii_lowercase(args.user)

\* C3: no record is produced for a repository whose contributions total 0 or
\* whose contributors do not include the queried user.
C3_NoRecordWithoutContributions ==
    Produced => /\ ~AllZero(call.contributors.body)
                /\ UserListed(call.contributors.body)

\* the part of C3 the code does keep: no record when the user is not listed
C3_NoRecordWhenUserAbsent ==
    Produced => UserListed(call.contributors.body)

InUnitInterval(x) == IsNum(x) /\ FLeq(FZero, x) /\ FLeq(x, FOne)

\* C4: the ratio of every record produced is a defined number in [0,1].
C4_RatioInUnitInterval ==
    \A i \in DOMAIN repos_info :
        InUnitInterval(repos_info[i].ratio_of_commits_from_user)

\* char::to_lowercase on the letters of the model: ASCII and Latin-1 capitals
LowerChar(c) ==
    IF (c >= 65 /\ c <= 90) \/ (c >= 192 /\ c <= 222 /\ c # 215) THEN c + 32 ELSE c

EqIgnoreCase(a, b) ==
    [i \in DOMAIN a |-> LowerChar(a[i])] = [i \in DOMAIN b |-> LowerChar(b[i])]

EqIgnoreAsciiCase(a, b) == to_ascii_lowercase(a) = to_ascii_lowercase(b)

\* the language names that are keys of a record or of the aggregate
KeysInUse ==
    UNION {DOMAIN repos_info[i].language_loc_map : i \in DOMAIN repos_info}
        \cup DOMAIN langs_map \cup DOMAIN percent_map
        \cup {percents_sorted[i].lang : i \in DOMAIN percents_sorted}

\* C5 as claimed: a language equal to an excluded name ignoring letter case is
\* a key of no record and of no aggregate.
C5_ExcludedIgnoringCase ==
    \A lang \in KeysInUse : \A i \in DOMAIN args.excluded_langs :
        ~EqIgnoreCase(lang, args.excluded_langs[i])

\* C5 amended: a language equal to an excluded name ignoring the case of the
\* ASCII letters is a key of no record and of no aggregate.
C5_ExcludedIgnoringAsciiCase ==
    \A lang \in KeysInUse : \A i \in DOMAIN args.excluded_langs :
        ~EqIgnoreAsciiCase(lang, args.excluded_langs[i])

\* "GO" was excluded, the breakdown listed "Go" and "Rust", Rust alone is kept
C5_Witness ==
    /\ pc = "done"
    /\ args.excluded_langs = <<GoUpper>>
    /\ outcomes = <<"record">>
    /\ DOMAIN repos_info[1].language_loc_map = {Rust}
    /\ DOMAIN percent_map = {Rust}

ParseFailures == {"contributors_unparsable", "langs_unparsable"}
TransportFailures == {"contributors_transport", "langs_transport"}

\* the stars of the repositories handle_repo returned a record for
RECURSIVE StarsOfAnalyzed(_)
StarsOfAnalyzed(n) ==
    IF n = 0 THEN <<>>
    ELSE IF outcomes[n] = "record"
         THEN Append(StarsOfAnalyzed(n - 1), repos[n].stargazers_count)
         ELSE StarsOfAnalyzed(n - 1)

\* C6 as claimed: a transport or parse failure of a per-repository request
\* skips that repository only, and the run goes on.
C6_AnyFetchFailureSkips ==
    \A i \in DOMAIN outcomes :
        outcomes[i] \in ParseFailures \cup TransportFailures
            => (pc # "failed" /\ idx > i)

\* C6 amended: a parse failure of a per-repository request skips that repository
\* only; a run that meets no transport failure analyzes every repository and
\* aggregates exactly those that produced a record; only a transport failure
\* (of the repository being analyzed) ends the run with an error.
C6_ParseFailureSkips ==
    /\ \A i \in DOMAIN outcomes : outcomes[i] \in ParseFailures => idx > i
    /\ pc = "failed" => /\ outcomes # <<>>
                        /\ outcomes[Len(outcomes)] \in TransportFailures
                        /\ idx = Len(outcomes)
    /\ pc # "panicked"
    /\ (AfterScale \/ pc = "aggregate") =>
          /\ Len(outcomes) = Len(repos)
          /\ \A i \in DOMAIN outcomes : outcomes[i] \notin TransportFailures
          /\ [i \in DOMAIN repos_info |-> repos_info[i].stars]
                = StarsOfAnalyzed(Len(outcomes))

C6_Witness ==
    /\ pc = "done"
    /\ outcomes = <<"langs_unparsable", "record">>
    /\ Len(repos_info) = 1
    /\ total_stars = Num(repos[Len(repos)].stargazers_count, 1)

\* C7: when the language totals sum to 0 while a language key exists, the
\* percentage mapping is empty and no language line is presented.
C7_ZeroSumGivesEmptyMapping ==
    (AfterScale /\ DOMAIN langs_map # {} /\ sum_of_components = FZero)
    => /\ DOMAIN percent_map = {}
       /\ AfterPrint => percents_sorted = <<>>

\* C8: with no record, the run ends normally with an empty percentage mapping,
\* 0 stars, and no division evaluated on a zero denominator.
C8_NoRecordsNoDivision ==
    (pc = "done" /\ repos_info = <<>>)
    => /\ DOMAIN percent_map = {}
       /\ total_stars = FZero
       /\ ~div_zero

\* what does hold with no record: an empty mapping and 0 stars
C8_NoRecordsEmptyAggregate ==
    (pc = "done" /\ repos_info = <<>>)
    => /\ DOMAIN percent_map = {}
       /\ total_stars = FZero

KeyAt(i) == SortKey(percents_sorted[i].percent)

\* the lines presented are the entries of the percentage mapping
PresentsTheMap ==
    /\ Len(percents_sorted) = Cardinality(DOMAIN percent_map)
    /\ \A i \in DOMAIN percents_sorted :
          /\ percents_sorted[i].lang \in DOMAIN percent_map
          /\ percents_sorted[i].percent = percent_map[percents_sorted[i].lang]

\* C9 as claimed: descending truncated percentage, equal ones in
\* lexicographic order of name.
C9_TiesInLexicographicOrder ==
    AfterPrint =>
        /\ PresentsTheMap
        /\ \A i, j \in DOMAIN percents_sorted :
              i < j => \/ KeyAt(i) > KeyAt(j)
                       \/ /\ KeyAt(i) = KeyAt(j)
                          /\ StrLess(percents_sorted[i].lang, percents_sorted[j].lang)

\* C9 amended: descending truncated percentage, equal ones in reverse
\* lexicographic order of name.
C9_TiesInReverseLexicographicOrder ==
    AfterPrint =>
        /\ PresentsTheMap
        /\ \A i, j \in DOMAIN percents_sorted :
              i < j => \/ KeyAt(i) > KeyAt(j)
                       \/ /\ KeyAt(i) = KeyAt(j)
                          /\ StrLess(percents_sorted[j].lang, percents_sorted[i].lang)

\* 0.00025% and 0.0005% both truncate to 0: the smaller one, whose name is the
\* greater, is printed before the larger one
C9_Witness ==
    /\ AfterPrint
    /\ Len(percents_sorted) = 3
    /\ percents_sorted[1].lang = Rust
    /\ percents_sorted[2] = [lang |-> EAcuteLower, percent |-> Num(1, 4000)]
    /\ percents_sorted[3] = [lang |-> Go, percent |-> Num(1, 2000)]
    /\ KeyAt(2) = 0 /\ KeyAt(3) = 0

\* Go and Rust at 50% each: Rust is printed first
C9_TieAtFifty ==
    /\ AfterPrint
    /\ Len(percents_sorted) = 2
    /\ percents_sorted[1] = [lang |-> Rust, percent |-> Num(50, 1)]
    /\ percents_sorted[2] = [lang |-> Go, percent |-> Num(50, 1)]

\* Vec<Vec<RepoData>>, flattened
RECURSIVE Flatten(_)
Flatten(lists) == IF lists = <<>> THEN <<>> ELSE Head(lists) \o Flatten(Tail(lists))

\* C10: collect_repos returns the user's repositories, then each
\* organization's in membership order, nothing dropped, reordered or merged.
C10_ConcatenationInDiscoveryOrder ==
    /\ pc = "org_repos" =>
          repos \o Flatten(orgs_data) = api.user_repos \o Flatten(api.org_repos)
    /\ pc = "analyze" => repos = api.user_repos \o Flatten(api.org_repos)

\* a repository of the user's list that an organization lists too is there twice
C10_Witness ==
    /\ pc = "analyze"
    /\ Len(api.org_repos) = 2
    /\ Len(api.user_repos) = 2
    /\ api.user_repos[1] # api.user_repos[2]
    /\ api.org_repos[1] # <<>>
    /\ api.org_repos[2] = <<api.user_repos[1]>>
    /\ \E i, j \in DOMAIN repos : i < j /\ repos[i] = repos[j]
    /\ Len(repos) = 2 + Len(api.org_repos[1]) + 1

====
